---- MODULE Spec2Model ----
(***************************************************************************)
(* Model of scripts/ABC_XYZ_analytics_report.py (OzonReportX).             *)
(*                                                                         *)
(* merge_folder reads the delivered order rows of the monthly workbooks    *)
(* into one table, then builds the ABC sheet (profit pivot, share,         *)
(* cumulative share, rating) and the XYZ sheet (monthly order-count pivot, *)
(* regularity split, per-group statistics, rating).                        *)
(*                                                                         *)
(* Numbers.  Profits are integers (minor currency units).  Shares, means,  *)
(* variances and coefficients of variation are exact rationals kept as     *)
(* records [nan, num, den] with den > 0; a coefficient of variation is     *)
(* kept as its square (cv2 = variance / mean^2), so every comparison       *)
(* "CV <= p/q" is the integer comparison q*q*num <= p*p*den.  A missing    *)
(* pivot cell (pandas NaN) is the value NaN below.  Binary floating-point  *)
(* rounding of the pandas/numpy computation is not modelled.               *)
(***************************************************************************)
EXTENDS Integers, Naturals, Sequences, FiniteSets, Bags, TLC

(***************************************************************************)
(* Bounds of the model.                                                    *)
(***************************************************************************)
MaxSkuXYZ   == 2   \* SKUs 1..MaxSkuXYZ in the XYZ inputs
MaxMonth    == 4   \* shipment months 1..MaxMonth (0 = missing/unparseable date)
MaxRowsXYZ  == 5   \* rows of the merged table in the XYZ inputs
MaxSkuQty   == 2   \* SKUs 1..MaxSkuQty in the quantity inputs
MaxMonthQty == 2   \* shipment months 1..MaxMonthQty in the quantity inputs
MaxQty      == 2   \* "Kolichestvo sht." of a row is in 1..MaxQty
MaxRowsQty  == 3   \* rows of the merged table in the quantity inputs
MaxSkuABC   == 3   \* SKUs 1..MaxSkuABC in the ABC inputs
MaxRowsABC  == 4   \* rows of the merged table in the ABC inputs
MaxSkuItog   == 2  \* SKUs 1..MaxSkuItog in the combined-report inputs
MaxMonthItog == 2  \* shipment months 0..MaxMonthItog in those inputs
MaxRowsItog  == 5  \* rows of the merged table in those inputs
MaxMonthReg  == 3  \* shipment months 1..MaxMonthReg in the regular-group inputs
MaxFiles     == 2  \* workbooks in the input folder
MaxCols      == 3  \* columns of a sheet given to find_columns
MaxNumMonths == 120 \* month columns given to the threshold computation
MaxWorkers   == 2  \* max_workers: pages fetched concurrently in a batch (8 in the source)
PageSize     == 2  \* payload["page_size"]: operations in a full page (100 in the source)
MaxTxPages   == 3  \* a page with this number or beyond is never full
MaxPages     == 4  \* pages at this offset and beyond hold no posting

\* profit values of a single order row in the ABC inputs (signed amounts)
\* order counts of a SKU in a month in the regular-group inputs (0: none)
CountValues == {0, 1, 3, 10}

ProfitValues == {-1, 0, 1, 3, 16}

\* pandas NaN in a pivot cell (order counts are >= 0, so -1 is free)
NaN == -1

\* the label "Nedostatochno dannykh" (insufficient data) of the source
InsufficientData == "insufficient data"

\* keys of CANON
CANON == {"artikul", "tsena_prodazhi", "kolichestvo_sht", "pribyl", "data_otgruzki"}

\* sheets of the output workbook: "Zakazy" (orders), "ABC", "XYZ",
\* "Itog" (combined report), "Otchet" (report of skipped sources)
SheetNames == {"Zakazy", "ABC", "XYZ", "Itog", "Otchet"}

VARIABLES
    pc,             \* position inside merge_folder
    merged_export,  \* bag of the rows of the merged table
    pivot_abc,      \* ABC sheet: sequence of rows in sort order
    pivot_raw,      \* XYZ pivot: SKU -> month column -> order count or NaN
    pivot_xyz,      \* XYZ result per SKU (group, statistics, rating)
    itog_df,        \* "Itog" sheet: sequence of rows in sort order
    merged_cols,    \* canonical keys that are columns of the merged table
    sheets,         \* writer.sheets: names of the sheets of the output workbook
    files,          \* the sorted list of workbooks of input_dir that are read
    output_dir,     \* "none", or whether the output_dir passed is "new" or "existing"
    idx,            \* index of the next file of the read loop
    rows,           \* the list "rows": one entry per contributing sheet
    report_missing, \* list of (file, sheet, message) of skipped sheets
    report_partial, \* list of (file, sheet, message) of partial sheets
    fs,             \* what the run has created in the file system
    summary,        \* sources listed in the final summary of the run
    outcome,        \* how merge_folder ended ("" while it runs)
    o_schema,       \* "FBS" for get_orders, "FBO" for get_fbo_orders
    o_pc,           \* position inside get_orders / get_fbo_orders
    o_status,       \* index into STATUSES
    o_offset,       \* offset of the first page of the current batch
    o_pending,      \* page offsets of the submitted, unfinished futures
    o_page_results, \* page_results of the current batch, completion order
    o_result,       \* result: the postings returned so far
    o_pages,        \* what each page fetched for the current status gave
    columns,        \* df.columns: the headers of the sheet given to find_columns
    mapping,        \* the mapping find_columns builds: canonical key -> header
    f_pc,           \* "call" before find_columns has run, "ret" after, else "idle"
    all_files,      \* the stems of the Excel files of input_dir
    range,          \* <<from_ym, to_ym>> given by the caller, or None
    sel_files,      \* the stems in "files" after the range filter
    s_pc,           \* "call" before the filter has run, "ret" after, else "idle"
    num_months,     \* len(month_cols) given to the threshold computation
    regularity_threshold,\* round(num_months * 0.8), -1 before it is computed
    r_pc,           \* "call" before the threshold is computed, "ret" after, else "idle"
    t_pc,           \* get_transactions: idle, loop, returned or raised
    t_page,         \* payload["page"]
    all_operations, \* the operations collected so far
    t_responses,    \* the responses received, one per page requested
    t_ret,          \* the list returned
    u_pc,           \* check_and_update: the step reached
    repo,           \* the top-level items under repo_root: absent, old or new
    backup_dir,     \* create_backup has returned the backup
    source_dir,     \* the items of the extracted release; NoSource before
    u_todo,         \* the items apply_update has still to visit
    u_applied       \* apply_update has returned

mergeVars == <<pc, merged_export, pivot_abc, pivot_raw, pivot_xyz, itog_df,
               merged_cols, sheets>>
readVars  == <<files, output_dir, idx, rows, report_missing, report_partial,
               fs, summary, outcome>>
ordVars   == <<o_schema, o_pc, o_status, o_offset, o_pending, o_page_results, o_result,
               o_pages>>

findVars  == <<columns, mapping, f_pc>>
filterVars == <<all_files, range, sel_files, s_pc>>
roundVars == <<num_months, regularity_threshold, r_pc>>
txVars == <<t_pc, t_page, all_operations, t_responses, t_ret>>
updVars == <<u_pc, repo, backup_dir, source_dir, u_todo, u_applied>>
auxVars   == <<findVars, filterVars, roundVars, txVars, updVars>>

vars == <<mergeVars, readVars, ordVars, auxVars>>

(***************************************************************************)
(* Generic helpers.                                                        *)
(***************************************************************************)
RECURSIVE FSum(_, _)
\* sum of f[d] over d in D
FSum(f, D) ==
    IF D = {} THEN 0
    ELSE LET d == CHOOSE x \in D : TRUE IN f[d] + FSum(f, D \ {d})

\* all orderings (sequences without repetition) of the finite set S
Orderings(S) ==
    {q \in [1..Cardinality(S) -> S] : \A i, j \in 1..Cardinality(S) : i # j => q[i] # q[j]}

\* exact rationals
Rat(n, d)  == IF d < 0 THEN [nan |-> FALSE, num |-> -n, den |-> -d]
                       ELSE [nan |-> FALSE, num |-> n, den |-> d]
RatNaN     == [nan |-> TRUE, num |-> 0, den |-> 1]
RatZero    == [nan |-> FALSE, num |-> 0, den |-> 1]
\* r <= p/q and r = 0 as the float comparisons evaluate them: FALSE on NaN
RatLe(r, p, q) == ~r.nan /\ q * r.num <= p * r.den
RatEq(r, s)    == ~r.nan /\ ~s.nan /\ r.num * s.den = s.num * r.den
RatLeq(r, s)   == ~r.nan /\ ~s.nan /\ r.num * s.den <= s.num * r.den
\* the square of a non-negative quantity r2 satisfies sqrt(r2) <= p/q
SqLe(r2, p, q) == ~r2.nan /\ q * q * r2.num <= p * p * r2.den
SqIsZero(r2)   == ~r2.nan /\ r2.num = 0

(***************************************************************************)
(* The merged table.                                                       *)
(***************************************************************************)
Row(s, m, q, p) == [sku |-> s, month |-> m, qty |-> q, profit |-> p]

RowsOf(B) == BagToSet(B)

\* number of rows of the table B satisfying the row set R
CountRows(B, R) == FSum([r \in R |-> CopiesIn(r, B)], R)

\* the SKUs of the table; a row without SKU value (0, from a sheet whose SKU
\* column did not resolve) belongs to no group of a pivot
SkusOf(B) == {r.sku : r \in RowsOf(B)} \ {0}

(***************************************************************************)
(* ABC sheet.                                                              *)
(***************************************************************************)
\* pivot_table(index=Artikul, values=Pribyl, aggfunc="sum")
SumProfit(B, s) ==
    LET R == {r \in RowsOf(B) : r.sku = s}
    IN  FSum([r \in R |-> CopiesIn(r, B) * r.profit], R)

\* sort_values("Pribyl", ascending=False): the orders of the SKUs by
\* non-increasing summed profit (the order among equal profits is not
\* fixed by the unstable default sort)
DescendingOrders(B) ==
    {q \in Orderings(SkusOf(B)) :
        \A i, j \in 1..Len(q) : i < j => SumProfit(B, q[i]) >= SumProfit(B, q[j])}

\* total_profit
TotalProfitAbs(B) ==
    FSum([s \in SkusOf(B) |->
            IF SumProfit(B, s) < 0 THEN 0 - SumProfit(B, s) ELSE SumProfit(B, s)],
         SkusOf(B))
TotalProfit(B) == FSum([s \in SkusOf(B) |-> SumProfit(B, s)], SkusOf(B))

\* "Dolya v obshchey pribyli": profit / total_profit, 0.0 when the total is 0
ShareNoGuard(p, total) == IF total # 0 THEN Rat(p, total) ELSE Rat(p, 1)
ShareOf(p, total) == IF total # 0 THEN Rat(p, total) ELSE RatZero

\* "Nakopitelnaya dolya": cumsum of the shares down the sorted rows
CumShareNoSum(B, q, i) == ShareOf(SumProfit(B, q[i]), TotalProfit(B))
CumShare(B, q, i) ==
    LET total == TotalProfit(B)
        run   == FSum([j \in 1..i |-> SumProfit(B, q[j])], 1..i)
    IN  ShareOf(run, total)

\* "Otsenka": "C", then "B" where cumshare <= 0.95, then "A" where <= 0.8
AbcRatingStrict(cum) ==
    LET o1 == "C"
        o2 == IF cum.num * 20 < cum.den * 19 THEN "B" ELSE o1
        o3 == IF cum.num * 5 < cum.den * 4 THEN "A" ELSE o2
    IN  o3
AbcRating(cum) ==
    LET o1 == "C"
        o2 == IF RatLe(cum, 19, 20) THEN "B" ELSE o1
        o3 == IF RatLe(cum, 4, 5) THEN "A" ELSE o2
    IN  o3

AbcTable(B, q) ==
    [i \in 1..Len(q) |->
        [sku    |-> q[i],
         profit |-> SumProfit(B, q[i]),
         share  |-> ShareOf(SumProfit(B, q[i]), TotalProfit(B)),
         cum    |-> CumShare(B, q, i),
         rating |-> AbcRating(CumShare(B, q, i))]]

(***************************************************************************)
(* XYZ sheet: pivot and regularity split.                                  *)
(***************************************************************************)
\* month columns of the pivot: the distinct month labels of the table,
\* the blank label of rows without a valid shipment date dropped
MonthCols(B) == {r.month : r \in RowsOf(B)} \ {0}

\* pivot_table(index=Artikul, columns=month, values=date, aggfunc="count"):
\* a cell counts the rows of that SKU and month; a (SKU, month) pair with
\* no row is NaN (the pivot is built without fill_value)
PivotRawSumQty(B) ==
    [s \in SkusOf(B) |->
        [c \in MonthCols(B) |->
            LET R == {r \in RowsOf(B) : r.sku = s /\ r.month = c}
                n == FSum([r \in R |-> CopiesIn(r, B) * r.qty], R)
            IN  IF n = 0 THEN NaN ELSE n]]
PivotRaw(B) ==
    [s \in SkusOf(B) |->
        [c \in MonthCols(B) |->
            LET n == CountRows(B, {r \in RowsOf(B) : r.sku = s /\ r.month = c})
            IN  IF n = 0 THEN NaN ELSE n]]

\* Python round(): round half to even, here of the rational n/d >= 0
RoundFloor(n, d) == n \div d
RoundHalfEven(n, d) ==
    LET q == n \div d
        r == n % d
    IN  IF 2 * r < d THEN q
        ELSE IF 2 * r > d THEN q + 1
        ELSE IF q % 2 = 0 THEN q ELSE q + 1

\* regularity_threshold = round(num_months * 0.8)
RegularityThresholdZero(M) == 0
RegularityThreshold(M) == RoundHalfEven(4 * M, 5)

\* months_with_sales = (pivot_raw > 0).sum(axis=1); NaN > 0 is False
MonthsWithSales(row) == Cardinality({c \in DOMAIN row : row[c] > 0})

\* mask_noreg = months_with_sales < regularity_threshold
MaskNoregLe(row) == MonthsWithSales(row) <= RegularityThreshold(Cardinality(DOMAIN row))
MaskNoreg(row) == MonthsWithSales(row) < RegularityThreshold(Cardinality(DOMAIN row))
\* mask_reg = months_with_sales >= regularity_threshold
MaskReg(row) == MonthsWithSales(row) >= RegularityThreshold(Cardinality(DOMAIN row))

(***************************************************************************)
(* XYZ sheet: ratings.                                                     *)
(***************************************************************************)
\* _cv_to_rating: "Z", then "Y" where cv <= 0.50, then "X" where
\* cv <= 0.25, then insufficient data where cv == 0 (later writes win)
cv_to_rating_zero_first(cv2) ==
    LET o1 == "Z"
        o2 == IF SqIsZero(cv2) THEN InsufficientData ELSE o1
        o3 == IF SqLe(cv2, 1, 2) THEN "Y" ELSE o2
        o4 == IF SqLe(cv2, 1, 4) THEN "X" ELSE o3
    IN  o4
cv_to_rating(cv2) ==
    LET o1 == "Z"
        o2 == IF SqLe(cv2, 1, 2) THEN "Y" ELSE o1
        o3 == IF SqLe(cv2, 1, 4) THEN "X" ELSE o2
        o4 == IF SqIsZero(cv2) THEN InsufficientData ELSE o3
    IN  o4

\* _cv_to_rating_reg: "Y3", then "Y2" where cv <= 0.50, "Y1" where
\* cv <= 0.35, "X" where cv <= 0.20, insufficient data where cv == 0
cv_to_rating_reg_zero_first(cv2) ==
    LET o1 == "Y3"
        o2 == IF SqIsZero(cv2) THEN InsufficientData ELSE o1
        o3 == IF SqLe(cv2, 1, 2) THEN "Y2" ELSE o2
        o4 == IF SqLe(cv2, 7, 20) THEN "Y1" ELSE o3
        o5 == IF SqLe(cv2, 1, 5) THEN "X" ELSE o4
    IN  o5
cv_to_rating_reg(cv2) ==
    LET o1 == "Y3"
        o2 == IF SqLe(cv2, 1, 2) THEN "Y2" ELSE o1
        o3 == IF SqLe(cv2, 7, 20) THEN "Y1" ELSE o2
        o4 == IF SqLe(cv2, 1, 5) THEN "X" ELSE o3
        o5 == IF SqIsZero(cv2) THEN InsufficientData ELSE o4
    IN  o5

(***************************************************************************)
(* XYZ sheet: statistics of a pivot row.                                   *)
(***************************************************************************)
\* the month columns of a row holding a value (pandas skips NaN cells in
\* sum, mean, std and median)
Valid(row) == {c \in DOMAIN row : row[c] # NaN}

\* mean of the values f[c], c in D, as np.mean / DataFrame.mean give it
\* for values scaled by the factor k: NaN over no value
MeanOf(f, D, k) ==
    IF D = {} THEN RatNaN ELSE Rat(FSum(f, D), k * Cardinality(D))

\* population variance (ddof=0) of the values f[c], c in D, scaled by k
VarOf(f, D, k) ==
    IF D = {} THEN RatNaN
    ELSE LET n == Cardinality(D)
             S == FSum(f, D)
             Q == FSum([c \in D |-> f[c] * f[c]], D)
         IN  Rat(n * Q - S * S, k * k * n * n)

\* squared std / mean of the values f[c], c in D (independent of scale)
Cv2OfUncentered(f, D) ==
    LET n == Cardinality(D)
        S == FSum(f, D)
        Q == FSum([c \in D |-> f[c] * f[c]], D)
    IN  Rat(n * Q, S * S)
Cv2Of(f, D) ==
    LET n == Cardinality(D)
        S == FSum(f, D)
        Q == FSum([c \in D |-> f[c] * f[c]], D)
    IN  Rat(n * Q - S * S, S * S)

\* k-th smallest (k in 1..|D|) of the values f[c], c in D
Kth(f, D, k) ==
    CHOOSE v \in {f[c] : c \in D} :
        /\ Cardinality({c \in D : f[c] < v}) < k
        /\ k <= Cardinality({c \in D : f[c] <= v})

\* twice the median of the values f[c], c in D (NaN over no value)
Median2(f, D) ==
    LET n == Cardinality(D)
    IN  IF n = 0 THEN NaN
        ELSE IF n % 2 = 1 THEN 2 * Kth(f, D, (n + 1) \div 2)
        ELSE Kth(f, D, n \div 2) + Kth(f, D, n \div 2 + 1)

\* Noreg group (lines 425-431): total, mean, std over the month columns,
\* cv = std / mean, 0 where mean == 0 (a NaN mean compares unequal to 0,
\* so the NaN quotient stays)
StatsNoreg(row) ==
    LET D    == Valid(row)
        mean == MeanOf(row, D, 1)
        cv2  == IF mean.nan THEN RatNaN
                ELSE IF mean.num = 0 THEN RatZero
                ELSE Cv2Of(row, D)
    IN  [group             |-> "Noreg",
         months_with_sales |-> MonthsWithSales(row),
         total4            |-> 4 * FSum(row, D),
         median2           |-> NaN,
         winz4             |-> [c \in DOMAIN row |-> NaN],
         kept              |-> D,
         mean              |-> mean,
         std2              |-> VarOf(row, D, 1),
         cv2               |-> cv2,
         rating            |-> cv_to_rating(cv2)]

\* clip(upper=cap_ser) of one value (value and cap multiplied by 4)
ClipUpperNone(v4, cap4) == v4
ClipUpper(v4, cap4) == IF v4 > cap4 THEN cap4 ELSE v4

\* row[row >= th], th = 0.3 * median: the months of D that take part in
\* the mean and the std (w4 multiplied by 4, med2 twice the median)
KeptMonthsStrict(w4, D, med2) == {c \in D : 5 * w4[c] > 3 * med2}
KeptMonths(w4, D, med2) == {c \in D : 5 * w4[c] >= 3 * med2}

\* Reg group (lines 438-470).  Values are carried multiplied by 4, so that
\* the cap 2.5 * median = 5 * median2 / 4 is an integer.
StatsReg(row) ==
    LET D      == Valid(row)
        med2   == Median2(row, D)
        cap4   == 5 * med2
        \* winsorized = clip(upper=cap_ser)
        w4     == [c \in D |-> ClipUpper(4 * row[c], cap4)]
        \* kept = row[row >= threshold_low], threshold_low = 0.3 * median
        kept   == KeptMonths(w4, D, med2)
        mean   == MeanOf(w4, kept, 4)
        \* cv_reg = std / mean where mean is not NaN and not 0, else 0
        cv2    == IF mean.nan \/ mean.num = 0 THEN RatZero ELSE Cv2Of(w4, kept)
    IN  [group             |-> "Reg",
         months_with_sales |-> MonthsWithSales(row),
         total4            |-> FSum(w4, D),
         median2           |-> med2,
         \* "Vinz." companion: the winsorized value where original > cap
         winz4             |-> [c \in DOMAIN row |->
                                   IF row[c] # NaN /\ 4 * row[c] > cap4
                                   THEN cap4 ELSE NaN],
         kept              |-> kept,
         mean              |-> mean,
         std2              |-> VarOf(w4, kept, 4),
         cv2               |-> cv2,
         rating            |-> cv_to_rating_reg(cv2)]

\* the two tables of the XYZ sheet, keyed by SKU
XyzTable(P) ==
    [s \in DOMAIN P |-> IF MaskNoreg(P[s]) THEN StatsNoreg(P[s]) ELSE StatsReg(P[s])]

(***************************************************************************)
(* "Itog" sheet: the combined ABC/XYZ report (lines 572-601).              *)
(***************************************************************************)
\* SKUs of the outer join of the ABC and the XYZ ratings
ItogSkus(abc, xyz) == {abc[i].sku : i \in 1..Len(abc)} \cup DOMAIN xyz

\* "Otsenka po ABC" of a SKU, "" (fillna) for a SKU without ABC row
ItogAbc(abc, s) ==
    IF \E i \in 1..Len(abc) : abc[i].sku = s
    THEN abc[CHOOSE i \in 1..Len(abc) : abc[i].sku = s].rating
    ELSE ""

\* "Otsenka po XYZ" of a SKU, "" (fillna) for a SKU without XYZ row
ItogXyz(xyz, s) == IF s \in DOMAIN xyz THEN xyz[s].rating ELSE ""

\* "Obshchaya otsenka ABCXYZ": the two labels concatenated, overwritten by
\* insufficient data where the XYZ label is insufficient data
CombinedCodeNoOverride(a, x) == a \o x
CombinedCode(a, x) == IF x = InsufficientData THEN InsufficientData ELSE a \o x

\* order_abc of the first character of the combined code, 99 when it is
\* not A, B or C (the code starts with the ABC letter unless that is "")
OrderAbc(a) == CASE a = "A" -> 0 [] a = "B" -> 1 [] a = "C" -> 2 [] OTHER -> 99

\* _xyz_order
xyz_order(x) ==
    CASE x = "X" -> 0
      [] x = "Y1" -> 1
      [] x = "Y2" -> 2
      [] x = "Y3" -> 3
      [] x = "Y" -> 1
      [] x = "Z" -> 4
      [] OTHER -> 99

\* the sort keys (_s1, _s2) of a row, both 99 where the combined code is
\* insufficient data
ItogKeyByLabels(a, x) == <<OrderAbc(a), xyz_order(x)>>
ItogKey(a, x) ==
    IF CombinedCode(a, x) = InsufficientData THEN <<99, 99>>
    ELSE <<OrderAbc(a), xyz_order(x)>>

KeyLeq(k, l) == k[1] < l[1] \/ (k[1] = l[1] /\ k[2] <= l[2])

\* sort_values(["_s1", "_s2"]): the orders of the SKUs by non-decreasing
\* key (the order among equal keys follows the joined index and is left
\* open here)
ItogOrders(abc, xyz) ==
    {q \in Orderings(ItogSkus(abc, xyz)) :
        \A i, j \in 1..Len(q) :
            i < j => KeyLeq(ItogKey(ItogAbc(abc, q[i]), ItogXyz(xyz, q[i])),
                            ItogKey(ItogAbc(abc, q[j]), ItogXyz(xyz, q[j])))}

ItogTable(abc, xyz, q) ==
    [i \in 1..Len(q) |->
        [sku  |-> q[i],
         abc  |-> ItogAbc(abc, q[i]),
         xyz  |-> ItogXyz(xyz, q[i]),
         code |-> CombinedCode(ItogAbc(abc, q[i]), ItogXyz(xyz, q[i]))]]

(***************************************************************************)
(* The list of files merge_folder reads (lines 59-75, 169-185).  A file    *)
(* stem is given by what the regular expression of the parser sees in it:  *)
(* month is the number of the MONTHS_RU name it starts with (any case), 0  *)
(* for none; year is the number made by the four digits that follow the    *)
(* whitespace, -1 when something else follows.                             *)
(***************************************************************************)
StemMonths == {0, 1, 2}
StemYears  == {-1, 1999, 2000, 2001, 2100, 2101}
Stems == [month : StemMonths, year : StemYears]

\* the ranges a caller gives: from and to as (year, month)
RangeYears  == {1999, 2000, 2101}
RangeMonths == {1, 2}
Ranges == (RangeYears \X RangeMonths) \X (RangeYears \X RangeMonths)

\* parse_filename_to_month_year: (year, month), or None
parse_filename_to_month_year(stem) ==
    IF stem.month >= 1 /\ stem.year # -1 /\ 2000 <= stem.year /\ stem.year <= 2100
    THEN <<stem.year, stem.month>>
    ELSE "None"

\* comparison of (year, month) tuples
TupleLeq(a, b) == a[1] < b[1] \/ (a[1] = b[1] /\ a[2] <= b[2])

\* from_ym <= parsed <= to_ym
InRangeOpenEnd(parsed, from_ym, to_ym) ==
    TupleLeq(from_ym, parsed) /\ TupleLeq(parsed, to_ym) /\ parsed # to_ym
InRange(parsed, from_ym, to_ym) ==
    TupleLeq(from_ym, parsed) /\ TupleLeq(parsed, to_ym)

\* lines 175-185: the files kept (sorted() only orders them)
FilterFiles(all, rng) ==
    IF rng = "None" THEN all
    ELSE {f \in all :
            /\ parse_filename_to_month_year(f) # "None"
            /\ InRange(parse_filename_to_month_year(f), rng[1], rng[2])}

(***************************************************************************)
(* Reading the workbooks of the input folder (lines 165-282).              *)
(***************************************************************************)
DELIVERED_STATUS == "delivered"

\* headers of the status column met in order sheets, and norm() of them
StatusHeaders == {"Status", "Order status"}
norm(h) ==
    CASE h = "Status" -> "status"
      [] h = "Order status" -> "order status"
      [] h = "SKU" -> "sku"
      [] h = " sku " -> "sku"
      [] h = "Profit" -> "profit"
      [] h = "Qty" -> "qty"
      [] h = "qty." -> "qty"
      [] h = "Ship  Date" -> "ship date"
      [] h = "Comment" -> "comment"

\* headers met in order sheets besides the status column
Headers == {"SKU", " sku ", "Profit", "Qty", "qty.", "Ship  Date", "Comment"}

\* REV = build_reverse_map(), on the Latin aliases of ALIASES
REV == [a \in {"sku", "sale price", "qty", "profit", "ship date"} |->
          CASE a = "sku" -> "artikul"
            [] a = "sale price" -> "tsena_prodazhi"
            [] a = "qty" -> "kolichestvo_sht"
            [] a = "profit" -> "pribyl"
            [] a = "ship date" -> "data_otgruzki"]

\* REV.get(norm(col)): the canonical key of a header, "" (None) for none
RevGet(col) == IF norm(col) \in DOMAIN REV THEN REV[norm(col)] ELSE ""

\* "if k and k not in mapping": the header is taken for the key k
TakesKeyAgain(k, m) == k # ""
TakesKey(k, m) == k # "" /\ k \notin DOMAIN m

\* the loop of find_columns over df.columns from position i on
RECURSIVE FindLoop(_, _, _)
FindLoop(cols, i, m) ==
    IF i > Len(cols) THEN m
    ELSE LET k == RevGet(cols[i])
         IN  IF TakesKey(k, m)
             THEN FindLoop(cols, i + 1,
                           [x \in DOMAIN m \cup {k} |-> IF x = k THEN cols[i] ELSE m[x]])
             ELSE FindLoop(cols, i + 1, m)

\* find_columns(df): {canonical key -> header in df}
find_columns(cols) == FindLoop(cols, 1, <<>>)

\* the column lists of a sheet as pandas reads it: distinct headers
ColumnLists ==
    {cs \in UNION {[1..n -> Headers] : n \in 0..MaxCols} :
        \A i, j \in DOMAIN cs : i # j => cs[i] # cs[j]}

\* status cells met in order sheets, and .str.strip().str.lower() of them
StatusValues == {" Delivered ", "cancelled"}
StripLower(v) == CASE v = " Delivered " -> "delivered" [] v = "cancelled" -> "cancelled"

\* the sets of canonical columns find_columns resolves in a sheet: none,
\* some with the SKU, some without the SKU, all five
ColumnSets == {{}, {"artikul", "pribyl"}, {"tsena_prodazhi"}, CANON}

\* a workbook of the folder: one that cannot be opened, one without order
\* sheet, one whose order sheet cannot be parsed, one whose order sheet is
\* empty, or one with an order sheet holding one row per status in statuses
Workbooks ==
    {[kind |-> k, status_hdr |-> "Status", cols |-> {}, statuses |-> {}] :
        k \in {"unreadable", "no_order_sheet", "parse_error", "empty"}}
    \cup
    {[kind |-> "sheet", status_hdr |-> h, cols |-> c, statuses |-> S] :
        h \in StatusHeaders, c \in ColumnSets, S \in (SUBSET StatusValues) \ {{}}}

FileSeqs == UNION {[1..n -> Workbooks] : n \in 0..MaxFiles}

\* lines 230-241: the rows kept by the status filter, which is applied only
\* when a column with normalised header "status" exists
DeliveredRows(f) ==
    IF norm(f.status_hdr) = "status"
    THEN {v \in f.statuses : StripLower(v) = DELIVERED_STATUS}
    ELSE f.statuses

\* lines 243-255: how the sheet is treated after find_columns, by the set
\* of canonical keys found
SheetClassAllOrNothing(f) == IF f.cols # CANON THEN "unmatched" ELSE "full"
SheetClass(f) ==
    IF f.cols = {} THEN "unmatched"
    ELSE IF f.cols # CANON THEN "partial"
    ELSE "full"

\* lines 257-274: the rows of one appended frame in the merged table; a
\* column that did not resolve in the sheet has no value (0)
SubRow(sub) ==
    Row(IF "artikul" \in sub.cols THEN sub.fname ELSE 0,
        IF "data_otgruzki" \in sub.cols THEN sub.fname ELSE 0,
        IF "kolichestvo_sht" \in sub.cols THEN 1 ELSE 0,
        IF "pribyl" \in sub.cols THEN 1 ELSE 0)

\* pd.concat(rows)
RECURSIVE ConcatBag(_)
ConcatBag(rs) ==
    IF rs = <<>> THEN EmptyBag
    ELSE ConcatBag(Tail(rs)) (+)
         [r \in {SubRow(Head(rs))} |-> Cardinality(Head(rs).statuses)]

\* the files named in a list of report entries
FilesIn(report) == {report[i].fname : i \in 1..Len(report)}

(***************************************************************************)
(* get_orders and get_fbo_orders (Monthly_sales_report.py).  Offsets are   *)
(* counted in pages (offset / limit); a posting is identified by the       *)
(* status and the page it came from.                                       *)
(***************************************************************************)
STATUSES(schema) ==
    IF schema = "FBS"
    THEN <<"awaiting_packaging", "awaiting_deliver", "delivering", "delivered", "cancelled">>
    ELSE <<"awaiting_deliver", "delivering", "delivered", "cancelled">>

\* what a page fetch can give: postings, no posting, or an exception
PageOutcomes(p) ==
    IF p < MaxPages THEN {"postings", "empty", "error"} ELSE {"empty", "error"}

\* fut.result() with the except branch: the postings of the page, none
\* when the fetch raised
PostingsOfErrorKept(status, p, out) ==
    IF out = "empty" THEN <<>> ELSE <<[status |-> status, offset |-> p]>>
PostingsOf(status, p, out) ==
    IF out = "postings" THEN <<[status |-> status, offset |-> p]>> ELSE <<>>

\* page_results.sort(key=offset)
RECURSIVE SortByOffset(_)
CompletionOrder(prs) == prs
SortByOffset(prs) ==
    IF prs = <<>> THEN <<>>
    ELSE LET i == CHOOSE i \in DOMAIN prs :
                    \A j \in DOMAIN prs : prs[i].offset <= prs[j].offset
             rest == [k \in 1..(Len(prs) - 1) |-> IF k < i THEN prs[k] ELSE prs[k + 1]]
         IN  <<prs[i]>> \o SortByOffset(rest)

\* the loop over the sorted pages: postings are taken up to the first page
\* without postings
RECURSIVE TakeUntilEmpty(_)
TakeUntilEmpty(prs) ==
    IF prs = <<>> THEN <<>>
    ELSE IF Head(prs).postings = <<>> THEN <<>>
    ELSE Head(prs).postings \o TakeUntilEmpty(Tail(prs))

\* empty_hit after the loop over the pages of the batch
EmptyHit(prs) == \E i \in DOMAIN prs : prs[i].postings = <<>>

(***************************************************************************)
(* get_transactions (Monthly_sales_report.py).  An operation is identified *)
(* by the page it came in and its kind.                                    *)
(***************************************************************************)
OpKinds == {"accrual", "fee"}
StatusCodes == {200, 404, 500}

\* the lists of operations a page can hold
OperationLists(p) ==
    LET most == IF p < MaxTxPages THEN PageSize ELSE PageSize - 1
    IN  UNION {[1..n -> [page : {p}, kind : OpKinds]] : n \in 0..most}

\* what session.post can give for a page: a response with a status code
\* and (read only when the code is 200) its operations, or an exception
Responses(p) ==
    [raised : {FALSE}, status_code : {200}, operations : OperationLists(p)]
    \cup [raised : {FALSE}, status_code : StatusCodes \ {200}, operations : {<<>>}]
    \cup [raised : {TRUE}, status_code : {0}, operations : {<<>>}]

\* the value returned when a response has a status code other than 200
ErrorReturnCollected(ops) == ops
ErrorReturn(ops) == <<>>

(***************************************************************************)
(* check_and_update and apply_update (_auto_update.py).  The directory     *)
(* repo_root is a map from the names of its top-level items to their       *)
(* content: absent, old (as before the call) or new (from the release).    *)
(***************************************************************************)
\* the names of top-level items met in repo_root and in a release
BackupNames == {"backup_v1.0.0"}
ItemNames == {".env", "version.txt", "main.py", "scripts"} \cup BackupNames

\* source_dir before download_and_extract has returned
NoSource == {"<none>"}

\* preserve
preserve ==
    {".venv", ".git", "__pycache__", "reports", ".env", "costs.xlsx", "costs.csv",
     "version.txt", "updater.log", "backup_*"}

\* item.match(pattern) for a pattern of one component: the name of the item
\* against the pattern, "*" standing for any run of characters
MatchLiteral(name, pattern) == name = pattern
Match(name, pattern) ==
    IF pattern = "backup_*" THEN name \in BackupNames ELSE name = pattern

\* any(item.match(pattern) for pattern in preserve)
Preserved(name) == \E pattern \in preserve : Match(name, pattern)

\* what the try block of one item can leave at dest: the new item; on an
\* exception the old one (nothing done yet) or, once dest was removed,
\* nothing
ItemResults(content) ==
    {"new", content} \cup (IF content = "absent" THEN {} ELSE {"absent"})

(***************************************************************************)
(* merge_folder as a state machine.                                        *)
(***************************************************************************)
\* find_columns not called
FindIdle ==
    /\ columns = <<>>
    /\ mapping = <<>>
    /\ f_pc = "idle"

\* the file list of merge_folder not computed
FilterIdle ==
    /\ all_files = {}
    /\ range = "None"
    /\ sel_files = {}
    /\ s_pc = "idle"

\* the regularity threshold not computed on its own
RoundIdle ==
    /\ num_months = 0
    /\ regularity_threshold = -1
    /\ r_pc = "idle"

\* get_transactions not called
TxIdle ==
    /\ t_pc = "idle"
    /\ t_page = 1
    /\ all_operations = <<>>
    /\ t_responses = <<>>
    /\ t_ret = <<>>

\* check_and_update not called
UpdIdle ==
    /\ u_pc = "idle"
    /\ repo = [n \in ItemNames |-> "absent"]
    /\ backup_dir = FALSE
    /\ source_dir = NoSource
    /\ u_todo = {}
    /\ u_applied = FALSE

\* none of the other functions is called
AuxIdle == FindIdle /\ FilterIdle /\ RoundIdle /\ TxIdle /\ UpdIdle

\* merge_folder not called
MergeIdle ==
    /\ pc = "done"
    /\ merged_export = EmptyBag
    /\ pivot_abc = <<>>
    /\ pivot_raw = <<>>
    /\ pivot_xyz = <<>>
    /\ itog_df = <<>>
    /\ merged_cols = {}
    /\ sheets = {}
    /\ files = <<>>
    /\ output_dir = "none"
    /\ idx = 1
    /\ rows = <<>>
    /\ report_missing = <<>>
    /\ report_partial = <<>>
    /\ fs = {}
    /\ summary = {}
    /\ outcome = ""

\* get_orders / get_fbo_orders not called
OrdersIdle ==
    /\ o_schema = "FBS"
    /\ o_pc = "idle"
    /\ o_status = 1
    /\ o_offset = 0
    /\ o_pending = {}
    /\ o_page_results = <<>>
    /\ o_result = <<>>
    /\ o_pages = {}

\* lines 165-167 with the rows of the sheets given directly: every sheet
\* that is read resolves all five canonical columns
Init ==
    /\ pc = "read"
    /\ merged_export = EmptyBag
    /\ pivot_abc = <<>>
    /\ pivot_raw = <<>>
    /\ pivot_xyz = <<>>
    /\ itog_df = <<>>
    /\ merged_cols = CANON
    /\ sheets = {}
    /\ files = <<>>
    /\ output_dir = "none"
    /\ idx = 1
    /\ rows = <<>>
    /\ report_missing = <<>>
    /\ report_partial = <<>>
    /\ fs = {}
    /\ summary = {}
    /\ outcome = ""
    /\ OrdersIdle
    /\ AuxIdle

\* lines 211-274, XYZ inputs: one more delivered order row is read
\* (SKU and shipment month vary; quantity 1, profit 0)
ReadRowXYZ ==
    /\ pc = "read"
    /\ BagCardinality(merged_export) < MaxRowsXYZ
    /\ \E s \in 1..MaxSkuXYZ, m \in 0..MaxMonth :
          merged_export' = merged_export (+) SetToBag({Row(s, m, 1, 0)})
    /\ UNCHANGED <<pc, pivot_abc, pivot_raw, pivot_xyz>>
    /\ UNCHANGED <<itog_df, merged_cols, sheets, readVars, ordVars, auxVars>>

\* lines 211-274, quantity inputs: one more delivered order row is read
\* (SKU, shipment month and quantity vary; profit 0)
ReadRowQty ==
    /\ pc = "read"
    /\ BagCardinality(merged_export) < MaxRowsQty
    /\ \E s \in 1..MaxSkuQty, m \in 0..MaxMonthQty, q \in 1..MaxQty :
          merged_export' = merged_export (+) SetToBag({Row(s, m, q, 0)})
    /\ UNCHANGED <<pc, pivot_abc, pivot_raw, pivot_xyz>>
    /\ UNCHANGED <<itog_df, merged_cols, sheets, readVars, ordVars, auxVars>>

\* lines 211-274, ABC inputs: one more delivered order row is read
\* (SKU and profit vary; shipment month 1, quantity 1)
ReadRowABC ==
    /\ pc = "read"
    /\ BagCardinality(merged_export) < MaxRowsABC
    /\ \E s \in 1..MaxSkuABC, p \in ProfitValues :
          merged_export' = merged_export (+) SetToBag({Row(s, 1, 1, p)})
    /\ UNCHANGED <<pc, pivot_abc, pivot_raw, pivot_xyz>>
    /\ UNCHANGED <<itog_df, merged_cols, sheets, readVars, ordVars, auxVars>>

\* a row of SKU s in the combined-report inputs earns the profit s
UnitProfit(s) == s

\* lines 211-274, combined-report inputs: one more delivered order row is
\* read (SKU and shipment month vary; quantity 1, profit fixed by the SKU)
ReadRowItog ==
    /\ pc = "read"
    /\ BagCardinality(merged_export) < MaxRowsItog
    /\ \E s \in 1..MaxSkuItog, m \in 0..MaxMonthItog :
          merged_export' = merged_export (+) SetToBag({Row(s, m, 1, UnitProfit(s))})
    /\ UNCHANGED <<pc, pivot_abc, pivot_raw, pivot_xyz>>
    /\ UNCHANGED <<itog_df, merged_cols, sheets, readVars, ordVars, auxVars>>

\* lines 211-274, regular-group inputs: the order sheet of one more monthly
\* workbook is read, with k1 delivered rows of SKU 1 and k2 of SKU 2
ReadSheetReg ==
    /\ pc = "read"
    /\ \E m \in 1..MaxMonthReg, k1 \in CountValues, k2 \in CountValues :
          /\ m \notin MonthCols(merged_export)
          /\ k1 + k2 > 0
          /\ merged_export' =
                merged_export
                (+) [r \in (IF k1 > 0 THEN {Row(1, m, 1, 0)} ELSE {}) |-> k1]
                (+) [r \in (IF k2 > 0 THEN {Row(2, m, 1, 0)} ELSE {}) |-> k2]
    /\ UNCHANGED <<pc, pivot_abc, pivot_raw, pivot_xyz>>
    /\ UNCHANGED <<itog_df, merged_cols, sheets, readVars, ordVars, auxVars>>

\* lines 211-274, regular-group inputs: a delivered row of SKU 3 whose
\* shipment date cell cannot be parsed is read
ReadUndatedReg ==
    /\ pc = "read"
    /\ CopiesIn(Row(3, 0, 1, 0), merged_export) = 0
    /\ merged_export' = merged_export (+) SetToBag({Row(3, 0, 1, 0)})
    /\ UNCHANGED <<pc, pivot_abc, pivot_raw, pivot_xyz>>
    /\ UNCHANGED <<itog_df, merged_cols, sheets, readVars, ordVars, auxVars>>

\* lines 276-282: no rows, "nothing to merge", return
NothingToMerge ==
    /\ pc = "read"
    /\ merged_export = EmptyBag
    /\ pc' = "done"
    /\ UNCHANGED <<merged_export, pivot_abc, pivot_raw, pivot_xyz>>
    /\ UNCHANGED <<itog_df, merged_cols, sheets, readVars, ordVars, auxVars>>

\* lines 284-304: the rows are concatenated and the order sheet written
Concat ==
    /\ pc = "read"
    /\ merged_export # EmptyBag
    /\ pc' = "abc"
    /\ sheets' = sheets \cup {"Zakazy"}
    /\ UNCHANGED <<merged_export, pivot_abc, pivot_raw, pivot_xyz>>
    /\ UNCHANGED <<itog_df, merged_cols, readVars, ordVars, auxVars>>

\* lines 307-328: the ABC sheet, built when the merged table has the SKU
\* and the profit column
BuildABCUnguarded ==
    /\ pc = "abc"
    /\ IF {"artikul", "pribyl"} \subseteq merged_cols
       THEN /\ \E q \in DescendingOrders(merged_export) :
                  pivot_abc' = AbcTable(merged_export, q)
            /\ sheets' = sheets \cup {"ABC"}
            /\ pc' = "xyz"
            /\ outcome' = outcome
       ELSE /\ UNCHANGED <<pivot_abc, sheets>>
            /\ pc' = "done"
            /\ outcome' = "raised"
    /\ UNCHANGED <<merged_export, pivot_raw, pivot_xyz>>
    /\ UNCHANGED <<itog_df, merged_cols, ordVars, auxVars>>
    /\ UNCHANGED <<files, output_dir, idx, rows, report_missing, report_partial, fs, summary>>
BuildABC ==
    /\ pc = "abc"
    /\ IF {"artikul", "pribyl"} \subseteq merged_cols
       THEN /\ \E q \in DescendingOrders(merged_export) :
                  pivot_abc' = AbcTable(merged_export, q)
            /\ sheets' = sheets \cup {"ABC"}
       ELSE UNCHANGED <<pivot_abc, sheets>>
    /\ pc' = "xyz"
    /\ UNCHANGED <<merged_export, pivot_raw, pivot_xyz>>
    /\ UNCHANGED <<itog_df, merged_cols, readVars, ordVars, auxVars>>

\* lines 380-476: the XYZ sheet, built when the merged table has the SKU
\* and the shipment date column
BuildXYZ ==
    /\ pc = "xyz"
    /\ IF {"artikul", "data_otgruzki"} \subseteq merged_cols
       THEN /\ pivot_raw' = PivotRaw(merged_export)
            /\ pivot_xyz' = XyzTable(PivotRaw(merged_export))
            /\ sheets' = sheets \cup {"XYZ"}
       ELSE UNCHANGED <<pivot_raw, pivot_xyz, sheets>>
    /\ pc' = "itog"
    /\ UNCHANGED <<merged_export, pivot_abc>>
    /\ UNCHANGED <<itog_df, merged_cols, readVars, ordVars, auxVars>>

\* lines 571-602: the "Itog" sheet, built when both pivots exist
BuildItog ==
    /\ pc = "itog"
    /\ IF {"ABC", "XYZ"} \subseteq sheets
       THEN /\ \E q \in ItogOrders(pivot_abc, pivot_xyz) :
                  itog_df' = ItogTable(pivot_abc, pivot_xyz, q)
            /\ sheets' = sheets \cup {"Itog"}
       ELSE UNCHANGED <<itog_df, sheets>>
    /\ pc' = "report"
    /\ UNCHANGED <<merged_export, pivot_abc, pivot_raw, pivot_xyz, merged_cols>>
    /\ UNCHANGED <<readVars, ordVars, auxVars>>

\* lines 165-167, the folder given as a list of workbooks
InitRead ==
    /\ pc = "start"
    /\ merged_export = EmptyBag
    /\ pivot_abc = <<>>
    /\ pivot_raw = <<>>
    /\ pivot_xyz = <<>>
    /\ itog_df = <<>>
    /\ merged_cols = {}
    /\ sheets = {}
    /\ files \in FileSeqs
    /\ output_dir \in {"none", "new", "existing"}
    /\ idx = 1
    /\ rows = <<>>
    /\ report_missing = <<>>
    /\ report_partial = <<>>
    /\ fs = {}
    /\ summary = {}
    /\ outcome = ""
    /\ OrdersIdle
    /\ AuxIdle

\* lines 169-208: no file, return; else the output folder is created when
\* one is given and does not exist
Start ==
    /\ pc = "start"
    /\ IF files = <<>>
       THEN /\ pc' = "done"
            /\ outcome' = "no_files"
            /\ fs' = fs
       ELSE /\ pc' = "files"
            /\ outcome' = outcome
            /\ fs' = IF output_dir = "new" THEN fs \cup {"output_dir"} ELSE fs
    /\ UNCHANGED <<merged_export, pivot_abc, pivot_raw, pivot_xyz, itog_df, merged_cols, sheets>>
    /\ UNCHANGED <<files, output_dir, idx, rows, report_missing, report_partial, summary>>
    /\ UNCHANGED <<ordVars, auxVars>>

\* lines 211-274: one pass of the loop over the files
ProcessFile ==
    /\ pc = "files"
    /\ idx <= Len(files)
    /\ idx' = idx + 1
    /\ LET f == files[idx]
           kept == DeliveredRows(f)
       IN  CASE f.kind \in {"unreadable", "no_order_sheet"} ->
                  UNCHANGED <<rows, report_missing, report_partial>>
             [] f.kind = "parse_error" ->
                  /\ report_missing' = Append(report_missing, [fname |-> idx, msg |-> "parse error"])
                  /\ UNCHANGED <<rows, report_partial>>
             [] f.kind = "empty" ->
                  /\ report_missing' = Append(report_missing, [fname |-> idx, msg |-> "empty sheet"])
                  /\ UNCHANGED <<rows, report_partial>>
             [] f.kind = "sheet" /\ kept = {} ->
                  UNCHANGED <<rows, report_missing, report_partial>>
             [] f.kind = "sheet" /\ kept # {} /\ SheetClass(f) = "unmatched" ->
                  /\ report_missing' = Append(report_missing, [fname |-> idx, msg |-> "no column found"])
                  /\ UNCHANGED <<rows, report_partial>>
             [] f.kind = "sheet" /\ kept # {} /\ SheetClass(f) # "unmatched" ->
                  /\ report_partial' =
                        IF SheetClass(f) = "partial"
                        THEN Append(report_partial, [fname |-> idx, msg |-> "missing columns"])
                        ELSE report_partial
                  /\ rows' = Append(rows, [fname |-> idx, cols |-> f.cols, statuses |-> kept])
                  /\ UNCHANGED report_missing
    /\ UNCHANGED <<mergeVars, files, output_dir, fs, summary, outcome, ordVars, auxVars>>

\* lines 276-282: no frame collected, "nothing to merge" and the skip
\* report are printed, return
NoRows ==
    /\ pc = "files"
    /\ idx > Len(files)
    /\ rows = <<>>
    /\ outcome' = "nothing_to_merge"
    /\ summary' = FilesIn(report_missing)
    /\ pc' = "done"
    /\ UNCHANGED <<merged_export, pivot_abc, pivot_raw, pivot_xyz, itog_df, merged_cols, sheets>>
    /\ UNCHANGED <<files, output_dir, idx, rows, report_missing, report_partial, fs>>
    /\ UNCHANGED <<ordVars, auxVars>>

\* lines 284-304: the frames are concatenated, the workbook is created and
\* the order sheet written
ConcatRows ==
    /\ pc = "files"
    /\ idx > Len(files)
    /\ rows # <<>>
    /\ merged_export' = ConcatBag(rows)
    /\ merged_cols' = UNION {rows[k].cols : k \in 1..Len(rows)}
    /\ sheets' = {"Zakazy"}
    /\ fs' = fs \cup {"workbook"}
    /\ pc' = "abc"
    /\ UNCHANGED <<pivot_abc, pivot_raw, pivot_xyz, itog_df>>
    /\ UNCHANGED <<files, output_dir, idx, rows, report_missing, report_partial, summary, outcome>>
    /\ UNCHANGED <<ordVars, auxVars>>

\* lines 703-723: the report sheet is written when a source was skipped or
\* partially used; the workbook is saved
WriteReport ==
    /\ pc = "report"
    /\ summary' = FilesIn(report_partial) \cup FilesIn(report_missing)
    /\ sheets' = IF report_partial # <<>> \/ report_missing # <<>>
                 THEN sheets \cup {"Otchet"} ELSE sheets
    /\ outcome' = "saved"
    /\ pc' = "done"
    /\ UNCHANGED <<merged_export, pivot_abc, pivot_raw, pivot_xyz, itog_df, merged_cols>>
    /\ UNCHANGED <<files, output_dir, idx, rows, report_missing, report_partial, fs>>
    /\ UNCHANGED <<ordVars, auxVars>>

\* get_orders (FBS) or get_fbo_orders (FBO) is called
InitOrders ==
    /\ pc = "done"
    /\ merged_export = EmptyBag
    /\ pivot_abc = <<>>
    /\ pivot_raw = <<>>
    /\ pivot_xyz = <<>>
    /\ itog_df = <<>>
    /\ merged_cols = {}
    /\ sheets = {}
    /\ files = <<>>
    /\ output_dir = "none"
    /\ idx = 1
    /\ rows = <<>>
    /\ report_missing = <<>>
    /\ report_partial = <<>>
    /\ fs = {}
    /\ summary = {}
    /\ outcome = ""
    /\ o_schema \in {"FBS", "FBO"}
    /\ o_pc = "submit"
    /\ o_status = 1
    /\ o_offset = 0
    /\ o_pending = {}
    /\ o_page_results = <<>>
    /\ o_result = <<>>
    /\ o_pages = {}
    /\ AuxIdle

\* the fetches of one batch are submitted
SubmitBatch ==
    /\ o_pc = "submit"
    /\ o_pending' = {o_offset + i : i \in 0..(MaxWorkers - 1)}
    /\ o_page_results' = <<>>
    /\ o_pc' = "collect"
    /\ UNCHANGED <<o_schema, o_status, o_offset, o_result, o_pages>>
    /\ UNCHANGED <<mergeVars, readVars, auxVars>>

\* as_completed: some pending fetch completes and its postings are recorded
CompletePage ==
    /\ o_pc = "collect"
    /\ \E p \in o_pending, out \in {"postings", "empty", "error"} :
          /\ out \in PageOutcomes(p)
          /\ o_pending' = o_pending \ {p}
          /\ o_page_results' =
                Append(o_page_results,
                       [offset |-> p,
                        postings |-> PostingsOf(STATUSES(o_schema)[o_status], p, out)])
          /\ o_pages' = o_pages \cup {[offset |-> p, outcome |-> out]}
          /\ o_pc' = IF o_pending' = {} THEN "merge" ELSE "collect"
    /\ UNCHANGED <<o_schema, o_status, o_offset, o_result>>
    /\ UNCHANGED <<mergeVars, readVars, auxVars>>

\* the pages of the batch are sorted by offset and their postings appended
\* up to the first page without postings
MergeBatch ==
    /\ o_pc = "merge"
    /\ o_page_results' = SortByOffset(o_page_results)
    /\ o_result' = o_result \o TakeUntilEmpty(SortByOffset(o_page_results))
    /\ o_pc' = "batch_done"
    /\ UNCHANGED <<o_schema, o_status, o_offset, o_pending, o_pages>>
    /\ UNCHANGED <<mergeVars, readVars, auxVars>>

\* after the batch: on empty_hit the next status, or return after the last
\* one; else the next batch of the same status
NextBatch ==
    /\ o_pc = "batch_done"
    /\ IF EmptyHit(o_page_results)
       THEN IF o_status < Len(STATUSES(o_schema))
            THEN /\ o_status' = o_status + 1
                 /\ o_offset' = 0
                 /\ o_pages' = {}
                 /\ o_pc' = "submit"
            ELSE /\ o_pc' = "returned"
                 /\ UNCHANGED <<o_status, o_offset, o_pages>>
       ELSE /\ o_offset' = o_offset + MaxWorkers
            /\ o_pc' = "submit"
            /\ UNCHANGED <<o_status, o_pages>>
    /\ UNCHANGED <<o_schema, o_pending, o_page_results, o_result>>
    /\ UNCHANGED <<mergeVars, readVars, auxVars>>

\* find_columns is called on a sheet
InitFind ==
    /\ MergeIdle
    /\ OrdersIdle
    /\ columns \in ColumnLists
    /\ mapping = <<>>
    /\ f_pc = "call"
    /\ FilterIdle
    /\ RoundIdle
    /\ TxIdle
    /\ UpdIdle

\* lines 121-135: find_columns runs to its return
FindColumns ==
    /\ f_pc = "call"
    /\ mapping' = find_columns(columns)
    /\ f_pc' = "ret"
    /\ UNCHANGED <<columns, mergeVars, readVars, ordVars, filterVars, roundVars, txVars, updVars>>

\* merge_folder is called on a folder, with or without a range
InitFilter ==
    /\ MergeIdle
    /\ OrdersIdle
    /\ FindIdle
    /\ all_files \in {S \in SUBSET Stems : Cardinality(S) <= MaxFiles}
    /\ range \in Ranges \cup {"None"}
    /\ sel_files = {}
    /\ s_pc = "call"
    /\ RoundIdle
    /\ TxIdle
    /\ UpdIdle

\* lines 169-185: the list of files to read is computed
SelectFiles ==
    /\ s_pc = "call"
    /\ sel_files' = FilterFiles(all_files, range)
    /\ s_pc' = "ret"
    /\ UNCHANGED <<all_files, range, mergeVars, readVars, ordVars, findVars, roundVars, txVars, updVars>>

\* the threshold computation on a pivot with num_months month columns
InitRound ==
    /\ MergeIdle
    /\ OrdersIdle
    /\ FindIdle
    /\ FilterIdle
    /\ num_months \in 0..MaxNumMonths
    /\ regularity_threshold = -1
    /\ r_pc = "call"
    /\ TxIdle
    /\ UpdIdle

\* lines 394-396: regularity_threshold = round(num_months * 0.8)
ComputeThreshold ==
    /\ r_pc = "call"
    /\ regularity_threshold' = RegularityThreshold(num_months)
    /\ r_pc' = "ret"
    /\ UNCHANGED <<num_months, mergeVars, readVars, ordVars, findVars, filterVars, txVars, updVars>>

\* get_transactions is called
InitTx ==
    /\ MergeIdle
    /\ OrdersIdle
    /\ FindIdle
    /\ FilterIdle
    /\ RoundIdle
    /\ t_pc = "loop"
    /\ t_page = 1
    /\ all_operations = <<>>
    /\ t_responses = <<>>
    /\ t_ret = <<>>
    /\ UpdIdle

\* session.post raises: the exception leaves the function
PageRaises ==
    /\ t_pc = "loop"
    /\ \E resp \in Responses(t_page) :
          /\ resp.raised
          /\ t_responses' = Append(t_responses, resp)
    /\ t_pc' = "raised"
    /\ UNCHANGED <<t_page, all_operations, t_ret>>
    /\ UNCHANGED <<mergeVars, readVars, ordVars, findVars, filterVars, roundVars, updVars>>

\* the response has a status code other than 200: return []
PageFails ==
    /\ t_pc = "loop"
    /\ \E resp \in Responses(t_page) :
          /\ ~resp.raised
          /\ resp.status_code # 200
          /\ t_responses' = Append(t_responses, resp)
    /\ t_ret' = ErrorReturn(all_operations)
    /\ t_pc' = "returned"
    /\ UNCHANGED <<t_page, all_operations>>
    /\ UNCHANGED <<mergeVars, readVars, ordVars, findVars, filterVars, roundVars, updVars>>

\* the response has status code 200: its operations are collected; after
\* a page with fewer than page_size operations the list is returned, else
\* the next page is requested
PageOk ==
    /\ t_pc = "loop"
    /\ \E resp \in Responses(t_page) :
          /\ ~resp.raised
          /\ resp.status_code = 200
          /\ t_responses' = Append(t_responses, resp)
          /\ all_operations' = all_operations \o resp.operations
          /\ IF Len(resp.operations) < PageSize
             THEN /\ t_pc' = "returned"
                  /\ t_ret' = all_operations'
                  /\ UNCHANGED t_page
             ELSE /\ t_page' = t_page + 1
                  /\ UNCHANGED <<t_pc, t_ret>>
    /\ UNCHANGED <<mergeVars, readVars, ordVars, findVars, filterVars, roundVars, updVars>>

\* check_and_update is called on some repo_root
InitUpd ==
    /\ MergeIdle
    /\ OrdersIdle
    /\ FindIdle
    /\ FilterIdle
    /\ RoundIdle
    /\ TxIdle
    /\ u_pc = "check"
    /\ repo \in [ItemNames -> {"absent", "old"}]
    /\ backup_dir = FALSE
    /\ source_dir = NoSource
    /\ u_todo = {}
    /\ u_applied = FALSE

\* lines 164-194: no release found, no newer version, a version that does
\* not parse or a refusal of the user return False; else the update starts
CheckRelease ==
    /\ u_pc = "check"
    /\ \E proceed \in BOOLEAN : u_pc' = IF proceed THEN "temp" ELSE "ret_false"
    /\ UNCHANGED <<repo, backup_dir, source_dir, u_todo, u_applied>>
    /\ UNCHANGED <<mergeVars, readVars, ordVars, findVars, filterVars, roundVars, txVars>>

\* lines 202-204: the temporary directory (outside repo_root) is recreated
MakeTempDir ==
    /\ u_pc = "temp"
    /\ \E ok \in BOOLEAN : u_pc' = IF ok THEN "backup" ELSE "ret_false"
    /\ UNCHANGED <<repo, backup_dir, source_dir, u_todo, u_applied>>
    /\ UNCHANGED <<mergeVars, readVars, ordVars, findVars, filterVars, roundVars, txVars>>

\* line 207: create_backup copies repo_root to a directory beside it
CreateBackup ==
    /\ u_pc = "backup"
    /\ \E ok \in BOOLEAN :
          /\ backup_dir' = ok
          /\ u_pc' = IF ok THEN "download" ELSE "ret_false"
    /\ UNCHANGED <<repo, source_dir, u_todo, u_applied>>
    /\ UNCHANGED <<mergeVars, readVars, ordVars, findVars, filterVars, roundVars, txVars>>

\* line 210: download_and_extract returns the extracted directory, or raises
DownloadAndExtract ==
    /\ u_pc = "download"
    /\ \/ \E items \in SUBSET ItemNames :
             /\ source_dir' = items
             /\ u_todo' = items
             /\ u_pc' = "apply"
       \/ /\ u_pc' = "ret_false"
          /\ UNCHANGED <<source_dir, u_todo>>
    /\ UNCHANGED <<repo, backup_dir, u_applied>>
    /\ UNCHANGED <<mergeVars, readVars, ordVars, findVars, filterVars, roundVars, txVars>>

\* lines 128-150: one iteration of the loop of apply_update
ApplyItem ==
    /\ u_pc = "apply"
    /\ \E item \in u_todo :
          /\ u_todo' = u_todo \ {item}
          /\ IF Preserved(item)
             THEN UNCHANGED repo
             ELSE \E c \in ItemResults(repo[item]) :
                      repo' = [repo EXCEPT ![item] = c]
    /\ UNCHANGED <<u_pc, backup_dir, source_dir, u_applied>>
    /\ UNCHANGED <<mergeVars, readVars, ordVars, findVars, filterVars, roundVars, txVars>>

\* line 152: apply_update returns
ApplyReturns ==
    /\ u_pc = "apply"
    /\ u_todo = {}
    /\ u_applied' = TRUE
    /\ u_pc' = "version"
    /\ UNCHANGED <<repo, backup_dir, source_dir, u_todo>>
    /\ UNCHANGED <<mergeVars, readVars, ordVars, findVars, filterVars, roundVars, txVars>>

\* line 216: update_version_file(latest), or the write raises
UpdateVersionFile ==
    /\ u_pc = "version"
    /\ \/ /\ repo' = [repo EXCEPT !["version.txt"] = "new"]
          /\ u_pc' = "cleanup"
       \/ /\ u_pc' = "ret_false"
          /\ UNCHANGED repo
    /\ UNCHANGED <<backup_dir, source_dir, u_todo, u_applied>>
    /\ UNCHANGED <<mergeVars, readVars, ordVars, findVars, filterVars, roundVars, txVars>>

\* lines 219-226: the temporary directory is removed and the program
\* restarted, or one of the two raises
CleanupAndRestart ==
    /\ u_pc = "cleanup"
    /\ \E ok \in BOOLEAN : u_pc' = IF ok THEN "restarted" ELSE "ret_false"
    /\ UNCHANGED <<repo, backup_dir, source_dir, u_todo, u_applied>>
    /\ UNCHANGED <<mergeVars, readVars, ordVars, findVars, filterVars, roundVars, txVars>>

NextXYZ == ReadRowXYZ \/ NothingToMerge \/ Concat \/ BuildABC \/ BuildXYZ
NextQty == ReadRowQty \/ NothingToMerge \/ Concat \/ BuildABC \/ BuildXYZ
NextABC == ReadRowABC \/ NothingToMerge \/ Concat \/ BuildABC \/ BuildXYZ
NextRead ==
    Start \/ ProcessFile \/ NoRows \/ ConcatRows \/ BuildABC \/ BuildXYZ \/ BuildItog
    \/ WriteReport
NextOrders == SubmitBatch \/ CompletePage \/ MergeBatch \/ NextBatch
NextReg == ReadSheetReg \/ ReadUndatedReg \/ NothingToMerge \/ Concat \/ BuildABC \/ BuildXYZ
NextFind == FindColumns
NextFilter == SelectFiles
NextRound == ComputeThreshold
NextTx == PageRaises \/ PageFails \/ PageOk
NextUpd ==
    CheckRelease \/ MakeTempDir \/ CreateBackup \/ DownloadAndExtract \/ ApplyItem
    \/ ApplyReturns \/ UpdateVersionFile \/ CleanupAndRestart
NextItog == ReadRowItog \/ NothingToMerge \/ Concat \/ BuildABC \/ BuildXYZ \/ BuildItog

SpecXYZ == Init /\ [][NextXYZ]_vars
SpecQty == Init /\ [][NextQty]_vars
SpecABC == Init /\ [][NextABC]_vars
SpecItog == Init /\ [][NextItog]_vars
SpecReg == Init /\ [][NextReg]_vars
SpecFind == InitFind /\ [][NextFind]_vars
SpecFilter == InitFilter /\ [][NextFilter]_vars
SpecRound == InitRound /\ [][NextRound]_vars
SpecTx == InitTx /\ [][NextTx]_vars
SpecUpd == InitUpd /\ [][NextUpd]_vars
SpecRead == InitRead /\ [][NextRead]_vars
SpecOrders == InitOrders /\ [][NextOrders]_vars

(***************************************************************************)
(* Properties.                                                             *)
(***************************************************************************)
XyzBuilt == pc = "itog"
AbcBuilt == pc \in {"xyz", "itog"}

\* number of month columns of the pivot and the months in which the SKU s
\* has at least one order
NumMonths == Cardinality(MonthCols(merged_export))
ActiveMonths(s) == Cardinality({c \in DOMAIN pivot_raw[s] : pivot_raw[s][c] >= 1})

\* the integer nearest to 0.8 * M (0.8 * M is never halfway)
NearestTo08(M) == CHOOSE t \in 0..M : 10 * t - 8 * M < 5 /\ 8 * M - 10 * t < 5

\* the pivot row of s with 0 in the months without orders
ZeroFilled(s) == [c \in DOMAIN pivot_raw[s] |->
                     IF pivot_raw[s][c] = NaN THEN 0 ELSE pivot_raw[s][c]]

\* C1: every SKU of the pivot is in exactly one of the two groups, the
\* irregular one if and only if its number of months with a nonzero order
\* count is below T = round(0.8 * M); with M = 10 the threshold is 8.
C1_RegularitySplit ==
    XyzBuilt =>
        /\ DOMAIN pivot_xyz = SkusOf(merged_export)
        /\ DOMAIN pivot_raw = SkusOf(merged_export)
        /\ \A s \in DOMAIN pivot_xyz :
              /\ pivot_xyz[s].group \in {"Noreg", "Reg"}
              /\ pivot_xyz[s].group = "Noreg" <=> ActiveMonths(s) < NearestTo08(NumMonths)
              /\ pivot_xyz[s].group = "Reg" <=> ActiveMonths(s) >= NearestTo08(NumMonths)
        /\ RegularityThreshold(10) = 8

C1_Witness ==
    /\ XyzBuilt
    /\ NumMonths >= 3
    /\ \E s, t \in DOMAIN pivot_xyz :
          /\ pivot_xyz[s].group = "Reg"
          /\ ActiveMonths(s) = NearestTo08(NumMonths)
          /\ pivot_xyz[t].group = "Noreg"
          /\ ActiveMonths(t) = NearestTo08(NumMonths) - 1
          /\ ActiveMonths(t) >= 1

\* C2: for every irregular-group SKU the mean and the population standard
\* deviation are those of all M month columns, a month without orders
\* counting as 0.
C2_ZeroFilledStatistics ==
    XyzBuilt =>
        \A s \in DOMAIN pivot_xyz :
            pivot_xyz[s].group = "Noreg" =>
                /\ RatEq(pivot_xyz[s].mean,
                         MeanOf(ZeroFilled(s), DOMAIN pivot_raw[s], 1))
                /\ RatEq(pivot_xyz[s].std2,
                         VarOf(ZeroFilled(s), DOMAIN pivot_raw[s], 1))

\* C3: a SKU with orders in exactly one of M >= 2 months is in the
\* irregular group, its CV is that of [c,0,...,0], i.e. sqrt(M-1), and its
\* label is Z.
C3_SingleMonthSkuIsZ ==
    XyzBuilt =>
        \A s \in DOMAIN pivot_xyz :
            (NumMonths >= 2 /\ ActiveMonths(s) = 1) =>
                /\ pivot_xyz[s].group = "Noreg"
                /\ RatEq(pivot_xyz[s].cv2, Rat(NumMonths - 1, 1))
                /\ pivot_xyz[s].rating = "Z"

C5_RegRating ==
    XyzBuilt =>
        \A s \in DOMAIN pivot_xyz :
            pivot_xyz[s].group = "Reg" =>
                LET cv2 == pivot_xyz[s].cv2
                IN  /\ ~cv2.nan
                    /\ pivot_xyz[s].rating =
                          IF cv2.num = 0 THEN InsufficientData
                          ELSE IF 25 * cv2.num <= cv2.den THEN "X"
                          ELSE IF 400 * cv2.num <= 49 * cv2.den THEN "Y1"
                          ELSE IF 4 * cv2.num <= cv2.den THEN "Y2"
                          ELSE "Y3"
                    /\ pivot_xyz[s].mean.nan => pivot_xyz[s].rating = InsufficientData
                    /\ pivot_xyz[s].rating \notin {"Y", "Z"}

C5_Witness ==
    /\ XyzBuilt
    /\ \E s, t \in DOMAIN pivot_xyz :
          /\ pivot_xyz[s].group = "Reg"
          /\ pivot_xyz[s].cv2.num = 0
          /\ pivot_xyz[s].rating = InsufficientData
          /\ pivot_xyz[t].group = "Reg"
          /\ pivot_xyz[t].cv2.num > 0
          /\ 25 * pivot_xyz[t].cv2.num > pivot_xyz[t].cv2.den
          /\ pivot_xyz[t].rating = "Y1"

\* C6: a SKU whose monthly order count is the same nonzero constant in
\* every one of the M months has CV = 0 and the label insufficient data.
ConstantInEveryMonth(s) ==
    /\ NumMonths >= 1
    /\ \A c \in DOMAIN pivot_raw[s] : pivot_raw[s][c] >= 1
    /\ \A c, d \in DOMAIN pivot_raw[s] : pivot_raw[s][c] = pivot_raw[s][d]

C6_ConstantSeries ==
    XyzBuilt =>
        \A s \in DOMAIN pivot_xyz :
            ConstantInEveryMonth(s) =>
                /\ ~pivot_xyz[s].cv2.nan /\ pivot_xyz[s].cv2.num = 0
                /\ pivot_xyz[s].rating = InsufficientData

C6_Witness ==
    /\ XyzBuilt
    /\ NumMonths >= 2
    /\ \E s \in DOMAIN pivot_xyz :
          /\ ConstantInEveryMonth(s)
          /\ \A c \in DOMAIN pivot_raw[s] : pivot_raw[s][c] = 2
          /\ pivot_xyz[s].rating = InsufficientData

\* the table B with the quantity of every row replaced by 1
UnitQty(B) ==
    LET U == {[r EXCEPT !.qty = 1] : r \in RowsOf(B)}
    IN  [u \in U |-> CountRows(B, {r \in RowsOf(B) : [r EXCEPT !.qty = 1] = u})]

\* C7: a monthly value of the pivot is the number of order rows of the SKU
\* shipped in that month, not the sum of their quantities: the pivot, the
\* groups and the labels are those of the table with every quantity set
\* to 1.
C7_CountNotQuantity ==
    XyzBuilt =>
        /\ \A s \in DOMAIN pivot_raw : \A c \in DOMAIN pivot_raw[s] :
              LET R == {r \in RowsOf(merged_export) : r.sku = s /\ r.month = c}
                  n == FSum([r \in R |-> CopiesIn(r, merged_export)], R)
              IN  pivot_raw[s][c] = IF n = 0 THEN NaN ELSE n
        /\ pivot_raw = PivotRaw(UnitQty(merged_export))
        /\ pivot_xyz = XyzTable(PivotRaw(UnitQty(merged_export)))

C7_Witness ==
    /\ XyzBuilt
    /\ \E r \in RowsOf(merged_export) :
          /\ r.qty >= 2
          /\ r.month # 0
          /\ pivot_raw[r.sku][r.month] = CopiesIn(r, merged_export)

\* summed profit of the first i rows of the ABC sheet, and of all rows
RunningProfit(i) == FSum([j \in 1..i |-> pivot_abc[j].profit], 1..i)
GrandTotal == RunningProfit(Len(pivot_abc))

CumShareNonDecreasing ==
    \A i, j \in 1..Len(pivot_abc) :
        i < j => RatLeq(pivot_abc[i].cum, pivot_abc[j].cum)

\* C9 as stated: for any profit distribution (summed profits may be
\* negative) the cumulative share is non-decreasing down the rows.
C9_Original == AbcBuilt => CumShareNonDecreasing

\* C9 amended: the cumulative share is non-decreasing down the rows
\* whenever no SKU's summed profit has the sign opposite to that of the
\* total profit (in particular when no summed profit is negative).
C9_NonDecreasingSameSign ==
    AbcBuilt =>
        ((\A i \in 1..Len(pivot_abc) : pivot_abc[i].profit * GrandTotal >= 0)
            => CumShareNonDecreasing)

C9_Witness ==
    /\ AbcBuilt
    /\ Len(pivot_abc) >= 3
    /\ \A i \in 1..Len(pivot_abc) : pivot_abc[i].profit > 0
    /\ \A i, j \in 1..Len(pivot_abc) :
          i < j => /\ RatLeq(pivot_abc[i].cum, pivot_abc[j].cum)
                   /\ ~RatEq(pivot_abc[i].cum, pivot_abc[j].cum)

\* C10: when the total profit is zero every share is 0, every cumulative
\* share is 0 and every SKU is labelled A.
C10_ZeroTotal ==
    AbcBuilt =>
        (GrandTotal = 0 =>
            \A i \in 1..Len(pivot_abc) :
                /\ RatEq(pivot_abc[i].share, RatZero)
                /\ RatEq(pivot_abc[i].cum, RatZero)
                /\ pivot_abc[i].rating = "A")

C10_Witness ==
    /\ AbcBuilt
    /\ GrandTotal = 0
    /\ Len(pivot_abc) >= 2
    /\ \E i \in 1..Len(pivot_abc) : pivot_abc[i].profit # 0
    /\ \A i \in 1..Len(pivot_abc) : pivot_abc[i].rating = "A"

ItogBuilt == pc = "report" /\ "Itog" \in sheets

\* C11: the combined code of a SKU is its ABC letter followed by its XYZ
\* label, except that it is exactly insufficient data whenever the XYZ
\* label is insufficient data, whatever the ABC label.
C11_CombinedCode ==
    ItogBuilt =>
        /\ {itog_df[i].sku : i \in 1..Len(itog_df)} = SkusOf(merged_export)
        /\ \A i \in 1..Len(itog_df) :
              /\ \E k \in 1..Len(pivot_abc) :
                    /\ pivot_abc[k].sku = itog_df[i].sku
                    /\ pivot_abc[k].rating = itog_df[i].abc
              /\ itog_df[i].xyz = pivot_xyz[itog_df[i].sku].rating
              /\ itog_df[i].xyz = InsufficientData
                    => itog_df[i].code = InsufficientData
              /\ itog_df[i].xyz # InsufficientData
                    => itog_df[i].code = itog_df[i].abc \o itog_df[i].xyz

C11_Witness ==
    /\ ItogBuilt
    /\ \E i, j \in 1..Len(itog_df) :
          /\ itog_df[i].abc = "A"
          /\ itog_df[i].xyz = InsufficientData
          /\ itog_df[i].code = InsufficientData
          /\ itog_df[j].abc = "C"
          /\ itog_df[j].xyz = "Y1"
          /\ itog_df[j].code = "CY1"

\* ranks of the labels of a row of the combined report
AbcRank(a) == IF a = "A" THEN 0 ELSE IF a = "B" THEN 1 ELSE IF a = "C" THEN 2 ELSE 99
XyzRank(x) ==
    IF x = "X" THEN 0
    ELSE IF x \in {"Y1", "Y"} THEN 1
    ELSE IF x = "Y2" THEN 2
    ELSE IF x = "Y3" THEN 3
    ELSE IF x = "Z" THEN 4
    ELSE 99

Returned == pc = "done"

\* C13: only rows whose status, trimmed and lower-cased, is "delivered"
\* contribute to the merged order table, for every sheet that is read.
C13_OnlyDelivered ==
    \A k \in 1..Len(rows) :
        /\ \A v \in rows[k].statuses : StripLower(v) = "delivered"
        /\ rows[k].statuses =
              {v \in files[rows[k].fname].statuses : StripLower(v) = "delivered"}

\* a canonical column resolves in no order sheet of the folder
AbsentEverywhere(k) ==
    \A i \in 1..Len(files) : files[i].kind = "sheet" => k \notin files[i].cols

\* neither classification has its columns: the SKU is absent from all
\* sources, or the profit and the shipment date both are
ClassificationImpossible ==
    \/ AbsentEverywhere("artikul")
    \/ AbsentEverywhere("pribyl") /\ AbsentEverywhere("data_otgruzki")

\* C14 as stated: when the required canonical columns are absent from all
\* sources, the run ends with an exception.
C14_Original ==
    (Returned /\ files # <<>> /\ ClassificationImpossible) => outcome = "raised"

\* C14: when the required canonical columns are absent from all sources,
\* the run returns normally: with "nothing to merge" and no workbook when no
\* sheet contributes a frame, else with a saved workbook that holds the
\* order sheet and none of the ABC, XYZ and combined sheets.
C14_NoClassificationNoException ==
    (Returned /\ files # <<>> /\ ClassificationImpossible) =>
        /\ outcome \in {"nothing_to_merge", "saved"}
        /\ outcome = "nothing_to_merge" <=> rows = <<>>
        /\ outcome = "nothing_to_merge" => "workbook" \notin fs /\ sheets = {}
        /\ outcome = "saved" =>
              /\ "workbook" \in fs
              /\ "Zakazy" \in sheets
              /\ sheets \cap {"ABC", "XYZ", "Itog"} = {}

C14_Witness ==
    /\ Returned
    /\ ClassificationImpossible
    /\ outcome = "saved"
    /\ \E i \in 1..Len(files) : files[i].kind = "sheet" /\ files[i].cols = {"tsena_prodazhi"}
    /\ \E i \in 1..Len(files) : files[i].kind = "sheet" /\ files[i].cols = {}

\* C15: when no row survives, merge_folder reports "nothing to merge",
\* returns without raising and has created neither a workbook nor an
\* output directory.
C15_NothingWritten ==
    (Returned /\ files # <<>> /\ rows = <<>>) =>
        /\ outcome = "nothing_to_merge"
        /\ fs = {}

\* a source that was skipped or only partially used: a workbook that cannot
\* be opened, an order sheet that cannot be parsed or is empty, an order
\* sheet with delivered rows of which not all five columns resolve
SkippedOrPartial(f) ==
    \/ f.kind \in {"unreadable", "parse_error", "empty"}
    \/ f.kind = "sheet" /\ DeliveredRows(f) # {} /\ f.cols # CANON

\* C16: every source that was skipped or only partially used is listed in
\* the final summary (the report sheet, or the printed skip report).
C16_SummaryComplete ==
    (Returned /\ outcome \in {"nothing_to_merge", "saved"}) =>
        \A i \in 1..Len(files) : SkippedOrPartial(files[i]) => i \in summary

\* the status whose pages are being fetched
CurrentStatus == STATUSES(o_schema)[o_status]

\* the page offsets of the postings of a status in the result
OffsetsInResult(st) ==
    {o_result[i].offset : i \in {k \in 1..Len(o_result) : o_result[k].status = st}}

\* C17: for each status and every completion order of the pages of a batch,
\* the postings are appended in ascending page-offset order, the pagination
\* of the status stops at the first empty page in offset order, and no
\* posting of a page with a larger offset than that empty page is included.
C17_PageOrder ==
    /\ \A i, j \in 1..Len(o_result) :
          (i < j /\ o_result[i].status = o_result[j].status)
              => o_result[i].offset < o_result[j].offset
    /\ \A e \in o_pages : e.outcome = "empty" =>
          \A p \in OffsetsInResult(CurrentStatus) : p < e.offset
    /\ o_pc = "submit" => \A e \in o_pages : e.outcome = "postings"
    /\ o_pc \in {"batch_done", "returned"} =>
          OffsetsInResult(CurrentStatus) =
              {e.offset : e \in {x \in o_pages :
                  /\ x.outcome = "postings"
                  /\ \A y \in o_pages : y.outcome # "postings" => x.offset < y.offset}}

C17_Witness ==
    /\ o_pc = "batch_done"
    /\ o_offset > 0
    /\ \E e, x \in o_pages :
          /\ e.outcome = "empty"
          /\ x.outcome = "postings"
          /\ e.offset < x.offset
          /\ e.offset - 1 \in OffsetsInResult(CurrentStatus)
    /\ Len(o_result) > Cardinality(OffsetsInResult(CurrentStatus))

\* the SKUs of the regular group
RegSkus == {s \in DOMAIN pivot_xyz : pivot_xyz[s].group = "Reg"}

\* the months in which the SKU s has a value in the pivot
ValueMonths(s) == {c \in DOMAIN pivot_raw[s] : pivot_raw[s][c] # NaN}

\* four times min(v, 2.5 * m) for the value v of SKU s in month c, m being
\* the median reported for s
MinValueCap4(s, c) ==
    IF 4 * pivot_raw[s][c] <= 5 * pivot_xyz[s].median2
    THEN 4 * pivot_raw[s][c] ELSE 5 * pivot_xyz[s].median2

\* C18: for a regular-group SKU with median m a monthly value v enters the
\* mean and the std as min(v, 2.5 * m), and the winsorized companion of a
\* month is present if and only if the month's value exceeds 2.5 * m, and
\* then equals 2.5 * m.
C18_Winsorization ==
    XyzBuilt =>
        \A s \in RegSkus :
            LET st == pivot_xyz[s]
                w4 == [c \in ValueMonths(s) |-> MinValueCap4(s, c)]
            IN  /\ st.mean = MeanOf(w4, st.kept, 4)
                /\ st.std2 = VarOf(w4, st.kept, 4)
                /\ \A c \in ValueMonths(s) :
                      /\ st.winz4[c] # NaN <=> 4 * pivot_raw[s][c] > 5 * st.median2
                      /\ st.winz4[c] # NaN => st.winz4[c] = 5 * st.median2
                /\ \A c \in DOMAIN pivot_raw[s] \ ValueMonths(s) : st.winz4[c] = NaN

C18_Witness ==
    /\ XyzBuilt
    /\ \E s \in RegSkus :
          \E c, d \in pivot_xyz[s].kept :
              /\ 4 * pivot_raw[s][c] > 5 * pivot_xyz[s].median2
              /\ pivot_xyz[s].winz4[c] = 5 * pivot_xyz[s].median2
              /\ 4 * pivot_raw[s][d] < 5 * pivot_xyz[s].median2
              /\ pivot_xyz[s].winz4[d] = NaN

\* C19: for a regular-group SKU with median m the months whose winsorized
\* value is strictly less than 0.3 * m are left out of the mean and the
\* population std (not counted as 0, not counted in the number of values);
\* a month whose value equals 0.3 * m is kept.
C19_LowMonthsDropped ==
    XyzBuilt =>
        \A s \in RegSkus :
            LET st   == pivot_xyz[s]
                w4   == [c \in ValueMonths(s) |-> MinValueCap4(s, c)]
                low  == {c \in ValueMonths(s) : 10 * w4[c] < 3 * 2 * st.median2}
                rest == ValueMonths(s) \ low
                n    == Cardinality(rest)
            IN  /\ st.kept = rest
                /\ \A c \in ValueMonths(s) : 10 * w4[c] = 6 * st.median2 => c \in st.kept
                /\ n > 0 =>
                      /\ RatEq(st.mean, Rat(FSum(w4, rest), 4 * n))
                      /\ RatEq(st.std2,
                               Rat(n * FSum([c \in rest |-> w4[c] * w4[c]], rest)
                                      - FSum(w4, rest) * FSum(w4, rest),
                                   16 * n * n))

C19_Witness ==
    /\ XyzBuilt
    /\ \E s \in RegSkus :
          \E c \in ValueMonths(s) :
              /\ 10 * MinValueCap4(s, c) < 6 * pivot_xyz[s].median2
              /\ c \notin pivot_xyz[s].kept
    /\ \E s \in RegSkus :
          \E c \in ValueMonths(s) :
              /\ 10 * MinValueCap4(s, c) = 6 * pivot_xyz[s].median2
              /\ c \in pivot_xyz[s].kept

\* C20: the median behind the cap and the threshold of a regular-group SKU
\* is the median of its values over all M month columns, a month without
\* orders counting as 0.
C20_MedianOverAllMonths ==
    XyzBuilt =>
        \A s \in RegSkus :
            pivot_xyz[s].median2 = Median2(ZeroFilled(s), DOMAIN pivot_raw[s])

\* the SKU s has order rows, all of them without valid shipment date
NoValidDate(s) ==
    /\ \E r \in RowsOf(merged_export) : r.sku = s
    /\ \A r \in RowsOf(merged_export) : r.sku = s => r.month = 0

\* C21: a SKU all of whose order rows lack a valid shipment date, while
\* other SKUs have valid months, is retained in the XYZ result with the
\* label insufficient data, never X, Y or Z.
C21_NoValidDateIsInsufficient ==
    XyzBuilt =>
        \A s \in SkusOf(merged_export) :
            (NoValidDate(s) /\ NumMonths >= 1) =>
                /\ s \in DOMAIN pivot_xyz
                /\ pivot_xyz[s].rating = InsufficientData

\* the positions of the headers of the sheet that normalise to an alias
\* of the canonical key k
MatchesOf(k) == {i \in DOMAIN columns : RevGet(columns[i]) = k}

\* C22: find_columns maps each canonical key to at most one header, the
\* first in column order among those that normalise to an alias of the
\* key; no header is mapped to two keys, headers matching no alias are
\* ignored, and a key without matching header is absent from the mapping.
C22_FirstMatchWins ==
    f_pc = "ret" =>
        /\ DOMAIN mapping = {k \in CANON : MatchesOf(k) # {}}
        /\ \A k \in DOMAIN mapping :
              \E i \in MatchesOf(k) :
                  /\ mapping[k] = columns[i]
                  /\ \A j \in MatchesOf(k) : i <= j
        /\ \A k, l \in DOMAIN mapping : k # l => mapping[k] # mapping[l]
        /\ \A i \in DOMAIN columns :
              RevGet(columns[i]) = "" => \A k \in DOMAIN mapping : mapping[k] # columns[i]

C22_Witness ==
    /\ f_pc = "ret"
    /\ \E k \in DOMAIN mapping : Cardinality(MatchesOf(k)) >= 2
    /\ \E i \in DOMAIN columns : RevGet(columns[i]) = ""
    /\ DOMAIN mapping # CANON

\* the frames the sheet of file i has appended to rows
FramesOf(i) == {k \in 1..Len(rows) : rows[k].fname = i}

\* the files whose order sheet holds rows and has been through the loop
SheetsRead == {i \in 1..Len(files) : i < idx /\ files[i].kind = "sheet"}

\* C23 as stated: every sheet that is read is recorded as unmatched and
\* contributes nothing when no canonical column resolves, is recorded as
\* partial and contributes when some but not all resolve, and is recorded in
\* neither list when all five resolve.
C23_Original ==
    \A i \in SheetsRead :
        /\ files[i].cols = {} =>
              i \in FilesIn(report_missing) /\ FramesOf(i) = {}
        /\ (files[i].cols # {} /\ files[i].cols # CANON) =>
              i \in FilesIn(report_partial) /\ FramesOf(i) # {}
        /\ files[i].cols = CANON =>
              i \notin FilesIn(report_missing) \cup FilesIn(report_partial)

\* C23: a sheet that keeps at least one row after the status filter is
\* recorded as unmatched and contributes nothing when no canonical column
\* resolves, is recorded as partial and contributes the kept rows with the
\* resolved columns when some but not all resolve, and is recorded in
\* neither list (and contributes) when all five resolve; a sheet that keeps
\* no row is recorded in neither list and contributes nothing.
C23_SheetBookkeeping ==
    \A i \in SheetsRead :
        LET f    == files[i]
            left == IF norm(f.status_hdr) = "status"
                    THEN {v \in f.statuses : StripLower(v) = "delivered"}
                    ELSE f.statuses
            contributes ==
                /\ Cardinality(FramesOf(i)) = 1
                /\ \A k \in FramesOf(i) : rows[k].cols = f.cols /\ rows[k].statuses = left
        IN  /\ left = {} =>
                  /\ i \notin FilesIn(report_missing) \cup FilesIn(report_partial)
                  /\ FramesOf(i) = {}
            /\ (left # {} /\ f.cols = {}) =>
                  /\ i \in FilesIn(report_missing) \ FilesIn(report_partial)
                  /\ FramesOf(i) = {}
            /\ (left # {} /\ f.cols # {} /\ f.cols # CANON) =>
                  /\ i \in FilesIn(report_partial) \ FilesIn(report_missing)
                  /\ contributes
            /\ (left # {} /\ f.cols = CANON) =>
                  /\ i \notin FilesIn(report_missing) \cup FilesIn(report_partial)
                  /\ contributes

C23_Witness ==
    /\ idx > Len(files)
    /\ \E i, j \in SheetsRead :
          /\ files[i].cols = {"tsena_prodazhi"}
          /\ i \in FilesIn(report_partial)
          /\ FramesOf(i) # {}
          /\ files[j].cols = {}
          /\ j \in FilesIn(report_missing)

\* C24: with a from (year, month) and a to (year, month) given, a file is
\* read if and only if its name parses as "<MonthName> <Year>" (a month
\* name, whitespace, four digits of a year from 2000 to 2100) to a pair
\* lying between from and to in lexicographic order, both bounds included;
\* a file whose name does not parse is not read.
C24_RangeFilter ==
    (s_pc = "ret" /\ range # "None") =>
        \A f \in all_files :
            LET parses == f.month \in 1..12 /\ f.year \in 2000..2100
                fromy  == range[1][1]
                fromm  == range[1][2]
                toy    == range[2][1]
                tom    == range[2][2]
            IN  f \in sel_files <=>
                    /\ parses
                    /\ fromy < f.year \/ (fromy = f.year /\ fromm <= f.month)
                    /\ f.year < toy \/ (f.year = toy /\ f.month <= tom)

C24_Witness ==
    /\ s_pc = "ret"
    /\ range # "None"
    /\ \E f \in sel_files : <<f.year, f.month>> = range[2]
    /\ \E f \in all_files \ sel_files : f.month = 0
    /\ Cardinality(all_files) = 2

\* C25: whenever the pivot has at least one month column, every SKU of the
\* regular group keeps at least one month after the winsorization and the
\* 0.3 * median exclusion, and its mean is defined and strictly positive.
C25_RegKeepsAMonth ==
    (XyzBuilt /\ NumMonths >= 1) =>
        \A s \in RegSkus :
            /\ pivot_xyz[s].kept # {}
            /\ ~pivot_xyz[s].mean.nan
            /\ pivot_xyz[s].mean.num > 0

C25_Witness ==
    /\ XyzBuilt
    /\ NumMonths >= 1
    /\ \E s \in RegSkus :
          /\ pivot_xyz[s].kept # ValueMonths(s)
          /\ pivot_xyz[s].mean.num > 0
    /\ \E s \in RegSkus :
          \E c \in ValueMonths(s) : pivot_xyz[s].winz4[c] # NaN
    /\ \E s \in DOMAIN pivot_xyz : ValueMonths(s) = {}

\* C26: for every number of months M >= 0 the value 0.8 * M is not halfway
\* between two integers, and the threshold round(0.8 * M) is what rounding
\* half up, floor(0.8 * M + 1/2), gives as well.
C26_NeverHalfway ==
    r_pc = "ret" =>
        /\ 2 * ((8 * num_months) % 10) # 10
        /\ regularity_threshold = (8 * num_months + 5) \div 10

C26_Witness ==
    /\ r_pc = "ret"
    /\ num_months = 3
    /\ regularity_threshold = 2

\* C27: when the total profit is positive, the last row of the ABC sheet
\* (the SKU last in descending-profit order) has cumulative share exactly 1
\* and is labelled "C"; in particular a workbook with a single SKU of
\* positive profit labels that SKU "C", never "A".
C27_LastSkuIsC ==
    (AbcBuilt /\ Len(pivot_abc) > 0 /\ GrandTotal > 0) =>
        LET last == pivot_abc[Len(pivot_abc)]
        IN  /\ RatEq(last.cum, Rat(1, 1))
            /\ last.rating = "C"
            /\ Len(pivot_abc) = 1 => pivot_abc[1].rating # "A"

C27_Witness ==
    /\ AbcBuilt
    /\ Len(pivot_abc) = 1
    /\ pivot_abc[1].profit > 0
    /\ pivot_abc[1].rating = "C"

C27_WitnessLoss ==
    /\ AbcBuilt
    /\ Len(pivot_abc) >= 2
    /\ GrandTotal > 0
    /\ pivot_abc[Len(pivot_abc)].profit < 0
    /\ pivot_abc[Len(pivot_abc)].rating = "C"
    /\ pivot_abc[1].rating = "C"

\* the statuses before the current one, and the current one
StatusesReached == {STATUSES(o_schema)[i] : i \in 1..o_status}

\* a page fetch of the current status raised
FetchRaised == \E e \in o_pages : e.outcome = "error"

\* while a page fetch of the current status has raised: no posting of the
\* raising page or of a page with a larger offset is kept, and no further
\* batch of the status is submitted; the postings kept for a status are
\* those of an initial run of its pages, in offset order
ErrorStopsStatus ==
    /\ \A e \in o_pages : e.outcome = "error" =>
          /\ \A p \in OffsetsInResult(CurrentStatus) : p < e.offset
          /\ o_pc \in {"collect", "merge", "batch_done", "returned"}
          /\ o_pc \in {"batch_done", "returned"} => EmptyHit(o_page_results)
    /\ o_pc = "returned" => o_status = Len(STATUSES(o_schema))
    /\ \A i \in 1..Len(o_result) :
          /\ o_result[i].status \in StatusesReached
          /\ \A q \in 0..(o_result[i].offset - 1) :
                q \in OffsetsInResult(o_result[i].status)
    /\ \A i, j \in 1..Len(o_result) :
          (i < j /\ o_result[i].status = o_result[j].status)
              => o_result[i].offset < o_result[j].offset

\* the step after a batch in which a fetch raised: the next status starts
\* at offset 0, or the function returns after the last status; the result
\* is left as it is
ErrorGoesOn ==
    (o_pc = "batch_done" /\ FetchRaised) =>
        /\ o_result' = o_result
        /\ \/ /\ o_status < Len(STATUSES(o_schema))
              /\ o_status' = o_status + 1
              /\ o_offset' = 0
              /\ o_pc' = "submit"
           \/ /\ o_status = Len(STATUSES(o_schema))
              /\ o_pc' = "returned"

\* C28: a page fetch that raises is treated like an empty page: the
\* pagination of the status stops there, the postings of pages with a
\* larger offset are discarded even when fetched in the same batch, the
\* function goes on to the next status and returns after the last one; the
\* postings kept for a status are a prefix of its pages in offset order.
C28_ErrorIsEmptyPage == [](ErrorStopsStatus) /\ [][ErrorGoesOn]_vars

C28_Witness ==
    /\ o_pc = "batch_done"
    /\ o_status > 1
    /\ o_status < Len(STATUSES(o_schema))
    /\ o_offset > 0
    /\ OffsetsInResult(CurrentStatus) # {}
    /\ \A e \in o_pages : e.outcome # "empty"
    /\ \E e, x \in o_pages :
          /\ e.outcome = "error"
          /\ x.outcome = "postings"
          /\ e.offset < x.offset
          /\ x.offset \notin OffsetsInResult(CurrentStatus)

\* the operations of the first n responses, in page order
RECURSIVE OperationsUpTo(_)
OperationsUpTo(n) ==
    IF n = 0 THEN <<>> ELSE OperationsUpTo(n - 1) \o t_responses[n].operations

\* C29: get_transactions is all-or-nothing: when some page request gave a
\* status code other than 200 the list returned is empty, whatever earlier
\* pages held; otherwise the list returned holds the operations of all the
\* pages requested, in page order, the last page being the first one with
\* fewer than page_size operations.
C29_AllOrNothing ==
    t_pc = "returned" =>
        IF \E i \in 1..Len(t_responses) : t_responses[i].status_code # 200
        THEN t_ret = <<>>
        ELSE /\ t_ret = OperationsUpTo(Len(t_responses))
             /\ \A i \in 1..Len(t_responses) :
                    \A k \in 1..Len(t_responses[i].operations) :
                        t_responses[i].operations[k].page = i
             /\ \A i \in 1..Len(t_responses) :
                    (Len(t_responses[i].operations) < PageSize) <=> (i = Len(t_responses))

C29_Witness ==
    /\ t_pc = "returned"
    /\ Len(t_responses) >= 3
    /\ t_responses[Len(t_responses)].status_code # 200
    /\ all_operations # <<>>
    /\ t_ret = <<>>

C29_WitnessAll ==
    /\ t_pc = "returned"
    /\ Len(t_responses) >= 3
    /\ t_responses[Len(t_responses)].status_code = 200
    /\ Len(t_ret) = 2 * PageSize + 1

\* a step that deletes or overwrites an item of repo_root is taken after
\* the backup was created and the release downloaded and extracted
ChangeAfterBackup ==
    repo' # repo => (backup_dir /\ source_dir # NoSource)

\* a step that changes version.txt writes the new version, after
\* apply_update has returned
VersionAfterApply ==
    repo'["version.txt"] # repo["version.txt"] =>
        (u_applied /\ u_pc = "version" /\ repo'["version.txt"] = "new")

\* the item names that the preserve set names: .env, version.txt, backup_*
NamedInPreserve == {".env", "version.txt"} \cup BackupNames

\* a step taken before apply_update has returned leaves every top-level
\* item named in the preserve set as it is
PreservedUntouched ==
    ~u_applied => \A n \in NamedInPreserve : repo'[n] = repo[n]

\* C30: in check_and_update nothing under repo_root is deleted or
\* overwritten, version.txt included, before the backup was created and the
\* release downloaded and extracted; version.txt is written, with the new
\* version, only after apply_update has returned; apply_update never
\* deletes or overwrites a top-level item named in its preserve set.
C30_UpdateOrder ==
    [][ChangeAfterBackup /\ VersionAfterApply /\ PreservedUntouched]_vars

C30_Witness ==
    /\ u_pc = "cleanup"
    /\ source_dir = ItemNames
    /\ repo[".env"] = "old"
    /\ repo["backup_v1.0.0"] = "old"
    /\ repo["version.txt"] = "new"
    /\ repo["main.py"] = "new"
    /\ repo["scripts"] = "absent"
====
